---------------------------- MODULE Spec2Model ----------------------------
(***************************************************************************)
(* Model of the raster-fonts atlas generator (src/src/main.rs, fn main).   *)
(*                                                                         *)
(* One run of the program is one behaviour.  The run is cut into the       *)
(* steps of main: measuring the glyphs of the charset, sorting the padded  *)
(* boxes, placing them on the canvas, clearing the canvas, generating the  *)
(* pixels of every placed glyph, building the kerning table, saving the    *)
(* image and writing the metadata file.                                    *)
(*                                                                         *)
(* The rasterizer (rusttype) is an input: for every code point it answers  *)
(* with no bounding box or with an ink box and a coverage for every pixel  *)
(* of the box.  Coverage is kept in units of 1/CovDen.                     *)
(***************************************************************************)
EXTENDS Integers, Sequences, FiniteSets, TLC

VARIABLES
    args,            \* parsed command line: output_image_size, padding, coverage_levels
    overflow_checks, \* build profile: TRUE = u32 subtraction panics on overflow, FALSE = wraps
    font,            \* the rasterizer's answer for each code point of the charset
    pc,              \* position of main
    next_glyph,      \* next code point the measuring loop visits
    glyphs,          \* out_metadata.glyphs
    kerning_table,   \* out_metadata.kerning_table: "None" or "Some"
    bounding_boxes,  \* Vec<(glyph_id, padded_w, padded_h)>
    outbuf,          \* the canvas, flat, index y * S + x
    generated,       \* keys of out_metadata.glyphs the generation loop has visited
    cur_glyph,       \* key the distance field loop body is working on (0: none)
    outside_buf,     \* scratch Vec<f32> of the distance field loop
    inside_buf,      \* scratch Vec<f32> of the distance field loop
    meta_format,     \* extension of meta_path as read by the final match
    img_written,     \* the image file exists on disk
    meta_written     \* the metadata file exists on disk

vars == << args, overflow_checks, font, pc, next_glyph, glyphs, kerning_table,
           bounding_boxes, outbuf, generated, cur_glyph, outside_buf, inside_buf,
           meta_format, img_written, meta_written >>

---------------------------------------------------------------------------
(* Bounds of the model *)

\* largest canvas side of the packing runs
MaxSize == 4
\* largest number of code points in the charset
MaxGlyphs == 2
\* largest ordinary ink box side
MaxInk == 2
\* largest padding
MaxPad == 2
\* side of the one huge ink box offered to the packing runs
BigInk == 254

(* Program constants *)

\* largest encodable padded side (0xFF)
MaxDim == 255
\* u8 and u16 moduli of the casts in SourceRect
U8Mod == 256
U16Mod == 65536
\* occupancy mark written by the packer (0xFF)
Mark == 255
\* denominator of the coverage unit: coverage v is cov / CovDen
CovDen == 10

---------------------------------------------------------------------------
(* Inputs *)

NoLevels == -1

\* coverage palettes: the rasterizer's coverage of pixel (x, y) of a w-wide
\* ink box is the palette entry at (y * w + x) modulo the palette's length
Palettes == << <<10>>, <<1, 3, 6, 9>>, <<0, 5, 10>>, <<10, 0>>, <<7, 4, 8, 2>> >>

NoBox == [has_box |-> FALSE, width |-> 0, height |-> 0, pal |-> 1]

Shapes(inkSides, pals) ==
    { [has_box |-> TRUE, width |-> w, height |-> h, pal |-> p] :
        w \in inkSides, h \in inkSides, p \in pals }

S == args.output_image_size
P == args.padding

Coverage(g, x, y) ==
    LET pal == Palettes[g.pal]
    IN  pal[((y * g.width + x) % Len(pal)) + 1]

---------------------------------------------------------------------------
(* Canvas helpers *)

Idx(x, y) == y * S + x

InCanvas(x, y) == x >= 0 /\ x < S /\ y >= 0 /\ y < S

RectCells(x, y, w, h) ==
    { <<cx, cy>> : cx \in x .. (x + w - 1), cy \in y .. (y + h - 1) }

None == [some |-> FALSE, x |-> 0, y |-> 0, width |-> 0, height |-> 0]

SourceRect(tx, ty, w, h) ==
    [some |-> TRUE, x |-> tx % U16Mod, y |-> ty % U16Mod,
     width |-> w % U8Mod, height |-> h % U8Mod]

SourceCells(r) == RectCells(r.x, r.y, r.width, r.height)

Placed == { c \in DOMAIN glyphs : glyphs[c].bitmap_source.some }

---------------------------------------------------------------------------
(* Measuring: main.rs 142-177 *)

PaddedW(g) == g.width + P * 2
PaddedH(g) == g.height + P * 2

TooLarge(g) == PaddedW(g) > MaxDim \/ PaddedH(g) > MaxDim

Measure ==
    /\ pc = "measure"
    /\ next_glyph \in DOMAIN font
    /\ LET c == next_glyph
           g == font[c]
       IN  /\ IF ~g.has_box
                THEN /\ glyphs' = glyphs @@ (c :> [bitmap_source |-> None])
                     /\ UNCHANGED bounding_boxes
                ELSE IF TooLarge(g)
                THEN UNCHANGED << glyphs, bounding_boxes >>
                ELSE /\ glyphs' = glyphs @@ (c :> [bitmap_source |-> None])
                     /\ bounding_boxes' = Append(bounding_boxes,
                            [glyph_id |-> c, w |-> PaddedW(g), h |-> PaddedH(g)])
           /\ next_glyph' = c + 1
           /\ pc' = IF c + 1 \in DOMAIN font THEN "measure" ELSE "sort"
    /\ UNCHANGED << args, overflow_checks, font, kerning_table, outbuf, generated,
                    cur_glyph, outside_buf, inside_buf, meta_format, img_written, meta_written >>

---------------------------------------------------------------------------
(* Sorting: main.rs 178, a stable sort by descending area *)

RECURSIVE InsertByArea(_, _)
InsertByArea(sorted, b) ==
    IF sorted = << >> THEN << b >>
    ELSE IF Head(sorted).w * Head(sorted).h >= b.w * b.h
         THEN << Head(sorted) >> \o InsertByArea(Tail(sorted), b)
         ELSE << b >> \o sorted

RECURSIVE SortByArea(_)
SortByArea(boxes) ==
    IF boxes = << >> THEN << >>
    ELSE InsertByArea(SortByArea(SubSeq(boxes, 1, Len(boxes) - 1)), boxes[Len(boxes)])

SortBoxes ==
    /\ pc = "sort"
    /\ bounding_boxes' = SortByArea(bounding_boxes)
    /\ pc' = IF bounding_boxes = << >> THEN "clear" ELSE "place"
    /\ UNCHANGED << args, overflow_checks, font, next_glyph, glyphs, kerning_table,
                    outbuf, generated, cur_glyph, outside_buf, inside_buf,
                    meta_format, img_written, meta_written >>

---------------------------------------------------------------------------
(* Placing: main.rs 179-219 *)

\* End of the range 0..(S - len) of a scan loop.  When len > S the u32
\* difference wraps to 2^32 - (len - S), which is above every canvas index
\* (len <= 255); the scan cannot get past index S, where get_pixel panics,
\* so the wrapped range is cut at S + 1.
ScanEnd(len) == IF len <= S THEN S - len ELSE S + 1

\* get_pixel: panics outside the canvas
Probe(buf, x, y) ==
    IF ~InCanvas(x, y) THEN "panic"
    ELSE IF buf[Idx(x, y)] # 0 THEN "marked" ELSE "free"

\* the full interior scan of main.rs 191-197
Interior(buf, tx, ty, w, h) ==
    IF \E ity \in 0 .. (h - 1), itx \in 0 .. (w - 1) : buf[Idx(tx + itx, ty + ity)] # 0
    THEN "skip" ELSE "place"

\* one iteration of the 'search loop: the short-circuit four-corner test of
\* main.rs 182-189, then the interior scan
Candidate(buf, tx, ty, w, h) ==
    LET c1 == Probe(buf, tx, ty)
        c2 == Probe(buf, tx + w - 1, ty)
        c3 == Probe(buf, tx, ty + h - 1)
        c4 == Probe(buf, tx + w - 1, ty + h - 1)
    IN  IF c1 # "free" THEN (IF c1 = "panic" THEN "panic" ELSE "skip")
        ELSE IF c2 # "free" THEN (IF c2 = "panic" THEN "panic" ELSE "skip")
        ELSE IF c3 # "free" THEN (IF c3 = "panic" THEN "panic" ELSE "skip")
        ELSE IF c4 # "free" THEN (IF c4 = "panic" THEN "panic" ELSE "skip")
        ELSE Interior(buf, tx, ty, w, h)

RowMajorLeq(p, q) == p[2] < q[2] \/ (p[2] = q[2] /\ p[1] <= q[1])

\* the loops of main.rs 180-215 for one rectangle: the first candidate, in
\* row-major order, that does not skip
Search(buf, w, h) ==
    IF h > S /\ overflow_checks THEN [kind |-> "panic", x |-> 0, y |-> 0]
    ELSE IF ScanEnd(h) = 0 THEN [kind |-> "failed", x |-> 0, y |-> 0]
    ELSE IF w > S /\ overflow_checks THEN [kind |-> "panic", x |-> 0, y |-> 0]
    ELSE LET hits == { p \in (0 .. (ScanEnd(w) - 1)) \X (0 .. (ScanEnd(h) - 1)) :
                         Candidate(buf, p[1], p[2], w, h) # "skip" }
         IN  IF hits = {} THEN [kind |-> "failed", x |-> 0, y |-> 0]
             ELSE LET first == CHOOSE p \in hits : \A q \in hits : RowMajorLeq(p, q)
                  IN  [kind |-> Candidate(buf, first[1], first[2], w, h),
                       x |-> first[1], y |-> first[2]]

\* MarkRect leaving the last column of a wider rectangle unmarked
MarkRectShort(buf, tx, ty, w, h) ==
    [i \in DOMAIN buf |->
        IF << i % S, i \div S >> \in RectCells(tx, ty, IF w > 1 THEN w - 1 ELSE w, h)
        THEN Mark ELSE buf[i]]

\* main.rs 199-203
MarkRect(buf, tx, ty, w, h) ==
    [i \in DOMAIN buf |->
        IF << i % S, i \div S >> \in RectCells(tx, ty, w, h) THEN Mark ELSE buf[i]]

\* RecordRect with the two coordinates exchanged
RecordRectSwapped(tx, ty, w, h) == SourceRect(ty, tx, w, h)

\* main.rs 205-210
RecordRect(tx, ty, w, h) == SourceRect(tx, ty, w, h)

Place ==
    /\ pc = "place"
    /\ bounding_boxes # << >>
    /\ LET b == Head(bounding_boxes)
           r == Search(outbuf, b.w, b.h)
           rect == RecordRect(r.x, r.y, b.w, b.h)
       IN  IF r.kind = "place" /\ rect.width # 0 /\ rect.height # 0
           THEN /\ outbuf' = MarkRect(outbuf, r.x, r.y, b.w, b.h)
                /\ glyphs' = [glyphs EXCEPT ![b.glyph_id].bitmap_source = rect]
                /\ bounding_boxes' = Tail(bounding_boxes)
                /\ pc' = IF Tail(bounding_boxes) = << >> THEN "clear" ELSE "place"
           ELSE /\ pc' = IF r.kind = "failed" THEN "pack_failed" ELSE "panic"
                /\ UNCHANGED << outbuf, glyphs, bounding_boxes >>
    /\ UNCHANGED << args, overflow_checks, font, next_glyph, kerning_table, generated,
                    cur_glyph, outside_buf, inside_buf, meta_format, img_written, meta_written >>

---------------------------------------------------------------------------
(* Clearing the occupancy marks: main.rs 221 *)

ClearCanvas ==
    /\ pc = "clear"
    /\ outbuf' = [i \in DOMAIN outbuf |-> 0]
    /\ pc' = "generate"
    /\ UNCHANGED << args, overflow_checks, font, next_glyph, glyphs, kerning_table,
                    bounding_boxes, generated, cur_glyph, outside_buf, inside_buf,
                    meta_format, img_written, meta_written >>

---------------------------------------------------------------------------
(* Coverage mode: main.rs 222-236 *)

\* f32::round on a non-negative quotient num / den: half away from zero
RoundDiv(num, den) == (2 * num + den) \div (2 * den)

\* QuantByte without the rounding to a level
QuantByteUnquantized(cov, levels) == RoundDiv(255 * cov, CovDen)

\* main.rs 232: (((v * levels).round() / levels) * 255.0).round() as u8;
\* with levels = 0 the quotient is NaN, which the cast turns into 0
QuantByte(cov, levels) ==
    IF levels = 0 THEN 0
    ELSE RoundDiv(255 * RoundDiv(cov * levels, CovDen), levels)

\* the pixels glyph.draw visits: every pixel of the ink box
Sampled(g) == (0 .. (g.width - 1)) \X (0 .. (g.height - 1))

\* CoverageWrites without the rectangle's position
CoverageWritesNoOffset(g, rect, levels) ==
    { [x |-> P + s[1], y |-> P + s[2],
       value |-> QuantByte(Coverage(g, s[1], s[2]), levels)] : s \in Sampled(g) }

\* put_pixel of main.rs 230-234 for every sampled pixel: target and byte
CoverageWrites(g, rect, levels) ==
    { [x |-> rect.x + P + s[1], y |-> rect.y + P + s[2],
       value |-> QuantByte(Coverage(g, s[1], s[2]), levels)] : s \in Sampled(g) }

---------------------------------------------------------------------------
(* Signed distance field mode: main.rs 238-368 *)

\* main.rs 46
max_dist == P * P

\* local ink coordinates of cell i of a padded_w-wide buffer
LocalX(i, padded_w) == (i % padded_w) - P
LocalY(i, padded_w) == (i \div padded_w) - P

IsSampled(g, i, padded_w) ==
    << LocalX(i, padded_w), LocalY(i, padded_w) >> \in Sampled(g)

\* v <= 0.5
IsBackground(cov) == 2 * cov <= CovDen

\* SeedOutside with the two seeds exchanged
SeedOutsideSwapped(g, padded_w, padded_h) ==
    [i \in 0 .. (padded_w * padded_h - 1) |->
        IF IsSampled(g, i, padded_w)
        THEN (IF IsBackground(Coverage(g, LocalX(i, padded_w), LocalY(i, padded_w)))
              THEN 0 ELSE max_dist)
        ELSE max_dist]

\* main.rs 253-260
SeedOutside(g, padded_w, padded_h) ==
    [i \in 0 .. (padded_w * padded_h - 1) |->
        IF IsSampled(g, i, padded_w)
        THEN (IF IsBackground(Coverage(g, LocalX(i, padded_w), LocalY(i, padded_w)))
              THEN max_dist ELSE 0)
        ELSE max_dist]

\* main.rs 295-302
SeedInside(g, padded_w, padded_h) ==
    [i \in 0 .. (padded_w * padded_h - 1) |->
        IF IsSampled(g, i, padded_w)
        THEN (IF IsBackground(Coverage(g, LocalX(i, padded_w), LocalY(i, padded_w)))
              THEN 0 ELSE max_dist)
        ELSE 0]

\* PropagateDown with a step that stays 1
RECURSIVE PropagateDownLinear(_, _, _, _, _, _)
PropagateDownLinear(buf, x, y, padded_w, padded_h, dist_step) ==
    IF y >= padded_h THEN buf
    ELSE LET idx_here == y * padded_w + x
             idx_up == (y - 1) * padded_w + x
         IN  IF buf[idx_here] > buf[idx_up] + dist_step
             THEN PropagateDownLinear([buf EXCEPT ![idx_here] = buf[idx_up] + dist_step],
                                      x, y + 1, padded_w, padded_h, dist_step)
             ELSE PropagateDownLinear(buf, x, y + 1, padded_w, padded_h, 1)

\* main.rs 266-278 (and 308-320): rows y .. padded_h - 1 of column x
RECURSIVE PropagateDown(_, _, _, _, _, _)
PropagateDown(buf, x, y, padded_w, padded_h, dist_step) ==
    IF y >= padded_h THEN buf
    ELSE LET idx_here == y * padded_w + x
             idx_up == (y - 1) * padded_w + x
         IN  IF buf[idx_here] > buf[idx_up] + dist_step
             THEN PropagateDown([buf EXCEPT ![idx_here] = buf[idx_up] + dist_step],
                                x, y + 1, padded_w, padded_h, dist_step + 2)
             ELSE PropagateDown(buf, x, y + 1, padded_w, padded_h, 1)

\* PropagateUp with a step that is never reset to 1
RECURSIVE PropagateUpKeepStep(_, _, _, _, _)
PropagateUpKeepStep(buf, x, y, padded_w, dist_step) ==
    IF y < 0 THEN buf
    ELSE LET idx_here == y * padded_w + x
             idx_down == (y + 1) * padded_w + x
         IN  IF buf[idx_here] > buf[idx_down] + dist_step
             THEN PropagateUpKeepStep([buf EXCEPT ![idx_here] = buf[idx_down] + dist_step],
                                      x, y - 1, padded_w, dist_step + 2)
             ELSE PropagateUpKeepStep(buf, x, y - 1, padded_w, dist_step)

\* main.rs 280-292 (and 322-334): rows y down to 0 of column x
RECURSIVE PropagateUp(_, _, _, _, _)
PropagateUp(buf, x, y, padded_w, dist_step) ==
    IF y < 0 THEN buf
    ELSE LET idx_here == y * padded_w + x
             idx_down == (y + 1) * padded_w + x
         IN  IF buf[idx_here] > buf[idx_down] + dist_step
             THEN PropagateUp([buf EXCEPT ![idx_here] = buf[idx_down] + dist_step],
                              x, y - 1, padded_w, dist_step + 2)
             ELSE PropagateUp(buf, x, y - 1, padded_w, 1)

\* one column: down, then up
ColumnPass(buf, x, padded_w, padded_h) ==
    PropagateUp(PropagateDown(buf, x, 1, padded_w, padded_h, 1),
                x, padded_h - 2, padded_w, 1)

\* main.rs 263-293 (and 305-335): the ink columns x .. width - 1, shifted by the padding
RECURSIVE ColumnPasses(_, _, _, _, _)
ColumnPasses(buf, x, width, padded_w, padded_h) ==
    IF x >= width THEN buf
    ELSE ColumnPasses(ColumnPass(buf, x + P, padded_w, padded_h),
                      x + 1, width, padded_w, padded_h)

\* main.rs 341-348 (and 352-359): the row scan for one target cell
RowMin(buf, x_here, y, padded_w) ==
    LET cands == { buf[y * padded_w + x_there] + (x_there - x_here) * (x_there - x_here) :
                     x_there \in 0 .. (padded_w - 1) }
    IN  CHOOSE d \in cands : \A e \in cands : d <= e

Clamp(d) == IF d > max_dist THEN max_dist ELSE d

\* main.rs 350-364: normalise, clamp, combine and encode.  With padding 0
\* both quotients are 0/0 = NaN and the cast writes 0.
SdfByte(outside_min, inside_min) ==
    IF max_dist = 0 THEN 0
    ELSE IF Clamp(outside_min) > 0
         THEN RoundDiv(255 * (max_dist - Clamp(outside_min)), 2 * max_dist)
         ELSE RoundDiv(255 * (max_dist + Clamp(inside_min)), 2 * max_dist)

\* put_pixel of main.rs 338-367 for every cell of the padded rectangle
SdfWrites(rect) ==
    { [x |-> rect.x + c[1], y |-> rect.y + c[2],
       value |-> SdfByte(RowMin(outside_buf, c[1], c[2], rect.width),
                         RowMin(inside_buf, c[1], c[2], rect.width))] :
       c \in (0 .. (rect.width - 1)) \X (0 .. (rect.height - 1)) }

---------------------------------------------------------------------------
(* The generation loops over out_metadata.glyphs, in the arbitrary order   *)
(* of a HashMap.  Coverage mode handles one glyph per step; the distance   *)
(* field loop body is cut at its five phases.                              *)

SdfMode == args.coverage_levels = NoLevels

ApplyWrites(buf, writes) ==
    [i \in DOMAIN buf |->
        IF \E wr \in writes : Idx(wr.x, wr.y) = i
        THEN (CHOOSE wr \in writes : Idx(wr.x, wr.y) = i).value
        ELSE buf[i]]

CurRect == glyphs[cur_glyph].bitmap_source

\* main.rs 223-236, and the head of the loop of main.rs 240-260
Generate ==
    /\ pc = "generate"
    /\ IF generated = DOMAIN glyphs
       THEN /\ pc' = "kerning"
            /\ UNCHANGED << outbuf, generated, cur_glyph, outside_buf >>
       ELSE \E c \in DOMAIN glyphs \ generated :
              /\ generated' = generated \cup {c}
              /\ IF ~glyphs[c].bitmap_source.some
                 THEN UNCHANGED << outbuf, pc, cur_glyph, outside_buf >>
                 ELSE IF SdfMode
                 THEN /\ cur_glyph' = c
                      /\ outside_buf' = SeedOutside(font[c], glyphs[c].bitmap_source.width,
                                                    glyphs[c].bitmap_source.height)
                      /\ pc' = "outside_columns"
                      /\ UNCHANGED outbuf
                 ELSE LET writes == CoverageWrites(font[c], glyphs[c].bitmap_source,
                                                   args.coverage_levels)
                      IN  /\ IF \E wr \in writes : ~InCanvas(wr.x, wr.y)
                             THEN pc' = "panic" /\ UNCHANGED outbuf
                             ELSE outbuf' = ApplyWrites(outbuf, writes) /\ UNCHANGED pc
                          /\ UNCHANGED << cur_glyph, outside_buf >>
    /\ UNCHANGED << args, overflow_checks, font, next_glyph, glyphs, kerning_table,
                    bounding_boxes, inside_buf, meta_format, img_written, meta_written >>

\* main.rs 262-293
OutsideColumns ==
    /\ pc = "outside_columns"
    /\ outside_buf' = ColumnPasses(outside_buf, 0, CurRect.width - P * 2,
                                   CurRect.width, CurRect.height)
    /\ pc' = "inside_seed"
    /\ UNCHANGED << args, overflow_checks, font, next_glyph, glyphs, kerning_table,
                    bounding_boxes, outbuf, generated, cur_glyph, inside_buf,
                    meta_format, img_written, meta_written >>

\* main.rs 295-302
InsideSeed ==
    /\ pc = "inside_seed"
    /\ inside_buf' = SeedInside(font[cur_glyph], CurRect.width, CurRect.height)
    /\ pc' = "inside_columns"
    /\ UNCHANGED << args, overflow_checks, font, next_glyph, glyphs, kerning_table,
                    bounding_boxes, outbuf, generated, cur_glyph, outside_buf,
                    meta_format, img_written, meta_written >>

\* main.rs 304-335
InsideColumns ==
    /\ pc = "inside_columns"
    /\ inside_buf' = ColumnPasses(inside_buf, 0, CurRect.width - P * 2,
                                  CurRect.width, CurRect.height)
    /\ pc' = "rows"
    /\ UNCHANGED << args, overflow_checks, font, next_glyph, glyphs, kerning_table,
                    bounding_boxes, outbuf, generated, cur_glyph, outside_buf,
                    meta_format, img_written, meta_written >>

\* main.rs 337-367
Rows ==
    /\ pc = "rows"
    /\ LET writes == SdfWrites(CurRect)
       IN  IF \E wr \in writes : ~InCanvas(wr.x, wr.y)
           THEN pc' = "panic" /\ UNCHANGED outbuf
           ELSE outbuf' = ApplyWrites(outbuf, writes) /\ pc' = "generate"
    /\ UNCHANGED << args, overflow_checks, font, next_glyph, glyphs, kerning_table,
                    bounding_boxes, generated, cur_glyph, outside_buf, inside_buf,
                    meta_format, img_written, meta_written >>

---------------------------------------------------------------------------
(* Kerning table: main.rs 371-385.  The table is present when kerning is   *)
(* not skipped and the font has a pair with non-zero kerning.              *)

Kerning ==
    /\ pc = "kerning"
    /\ \E skip_kerning_table \in BOOLEAN, has_pairs \in BOOLEAN :
         kerning_table' = IF ~skip_kerning_table /\ has_pairs THEN "Some" ELSE "None"
    /\ pc' = "save"
    /\ UNCHANGED << args, overflow_checks, font, next_glyph, glyphs, bounding_boxes,
                    outbuf, generated, cur_glyph, outside_buf, inside_buf,
                    meta_format, img_written, meta_written >>

---------------------------------------------------------------------------
(* Output: main.rs 387-418 *)

MetaFormats == { "ron", "json", "rkyv" }

\* main.rs 387: the image is saved first; a failing save panics
SaveImage ==
    /\ pc = "save"
    /\ \E io_ok \in BOOLEAN :
         IF io_ok THEN img_written' = TRUE /\ pc' = "write_meta"
                  ELSE pc' = "panic" /\ UNCHANGED img_written
    /\ UNCHANGED << args, overflow_checks, font, next_glyph, glyphs, kerning_table,
                    bounding_boxes, outbuf, generated, cur_glyph, outside_buf, inside_buf,
                    meta_format, meta_written >>

\* main.rs 389-416: the match on the extension of meta_path
WriteMeta ==
    /\ pc = "write_meta"
    /\ \E ext \in MetaFormats \cup { "other" }, io_ok \in BOOLEAN :
         /\ meta_format' = ext
         /\ IF ext \notin MetaFormats
            THEN pc' = "bad_format" /\ UNCHANGED << meta_written, kerning_table >>
            ELSE /\ kerning_table' = IF ext = "json" THEN "None" ELSE kerning_table
                 /\ IF io_ok THEN meta_written' = TRUE /\ pc' = "ok"
                             ELSE pc' = "panic" /\ UNCHANGED meta_written
    /\ UNCHANGED << args, overflow_checks, font, next_glyph, glyphs, bounding_boxes,
                    outbuf, generated, cur_glyph, outside_buf, inside_buf, img_written >>

---------------------------------------------------------------------------
(* Specifications *)

InitWith(sizes, pads, levels, builds, counts, shapes) ==
    /\ args \in [output_image_size : sizes, padding : pads, coverage_levels : levels]
    /\ overflow_checks \in builds
    /\ \E n \in counts : font \in [1 .. n -> shapes]
    /\ pc = "measure"
    /\ next_glyph = 1
    /\ glyphs = << >>
    /\ kerning_table = "None"
    /\ bounding_boxes = << >>
    /\ outbuf = [i \in 0 .. (S * S - 1) |-> 0]
    /\ generated = {}
    /\ cur_glyph = 0
    /\ outside_buf = << >>
    /\ inside_buf = << >>
    /\ meta_format = "unread"
    /\ img_written = FALSE
    /\ meta_written = FALSE

Next ==
    \/ Measure
    \/ SortBoxes
    \/ Place
    \/ ClearCanvas
    \/ Generate
    \/ OutsideColumns
    \/ InsideSeed
    \/ InsideColumns
    \/ Rows
    \/ Kerning
    \/ SaveImage
    \/ WriteMeta

\* Packing runs: small canvases, both build profiles, ordinary and huge ink boxes;
\* padding 0 lets the huge box through the size check, padding 1 does not
Init ==
    InitWith(1 .. MaxSize, { 0, 1 }, { NoLevels, 1 }, BOOLEAN, 1 .. MaxGlyphs,
             { NoBox } \cup Shapes((1 .. MaxInk) \cup { BigInk }, { 1 }))

Spec == Init /\ [][Next]_vars

\* Generation runs: a canvas that holds the largest padded box, every palette
GenSize == MaxInk + 2 * MaxPad + 1

InitGen ==
    InitWith({ GenSize }, 0 .. MaxPad, { NoLevels, 1, 2, 4 }, { FALSE }, { 1 },
             { NoBox } \cup Shapes(1 .. MaxInk, 1 .. Len(Palettes)))

SpecGen == InitGen /\ [][Next]_vars

\* Atlas runs: two code points on a canvas that holds two of the largest
\* padded boxes side by side, both generation modes
AtlasSize == 2 * (MaxInk + 2) + 1

InitAtlas ==
    InitWith({ AtlasSize }, { 0, 1 }, { NoLevels, 2 }, { FALSE }, { 2 },
             { NoBox } \cup Shapes(1 .. MaxInk, { 1, 3 }))

SpecAtlas == InitAtlas /\ [][Next]_vars

---------------------------------------------------------------------------
(* Properties *)

PackingDone == pc \notin { "measure", "sort", "place" }

Finished == pc \in { "ok", "bad_format", "pack_failed" }

ReachedSerialization == pc \in { "write_meta", "ok", "bad_format" }

Measured == { c \in DOMAIN font : c < next_glyph }

MarkedCells == { << i % S, i \div S >> : i \in { j \in DOMAIN outbuf : outbuf[j] # 0 } }

AllFree(buf, tx, ty, w, h) ==
    \A cell \in RectCells(tx, ty, w, h) : buf[Idx(cell[1], cell[2])] = 0

\* some top-left position keeps the w x h rectangle inside the canvas and on free pixels
HasValidPosition(buf, w, h) ==
    \E tx \in 0 .. (S - 1), ty \in 0 .. (S - 1) :
        /\ tx + w <= S
        /\ ty + h <= S
        /\ AllFree(buf, tx, ty, w, h)

C3_OversizeAbortsRun ==
    (\E c \in Measured : font[c].has_box /\ TooLarge(font[c])) =>
        /\ Placed = {}
        /\ ~img_written
        /\ ~meta_written

\* C4: when the rectangle to place has no valid position on the canvas, the
\* placement step ends the run in the packing-failure outcome with no file
\* written.
C4_NoPositionFailsCleanly ==
    [][ ( /\ pc = "place"
          /\ ~HasValidPosition(outbuf, Head(bounding_boxes).w, Head(bounding_boxes).h) )
        => ( pc' = "pack_failed" /\ ~img_written' /\ ~meta_written' ) ]_vars

\* C5: a run that ends with an undeterminable metadata format has written
\* no image, and every finished run wrote both files or neither.
C5_BothFilesOrNeither ==
    /\ pc = "bad_format" => ~img_written
    /\ Finished => (img_written <=> meta_written)

SoleExactFit ==
    /\ DOMAIN font = { 1 }
    /\ font[1].has_box
    /\ PaddedW(font[1]) = S
    /\ PaddedH(font[1]) = S

\* C6: a sole rectangle whose padded width and height equal the canvas side
\* is packed at position (0, 0).
C6_ExactFitPackedAtOrigin ==
    (SoleExactFit /\ PackingDone) =>
        /\ pc # "pack_failed"
        /\ 1 \in Placed
        /\ glyphs[1].bitmap_source.x = 0
        /\ glyphs[1].bitmap_source.y = 0

\* C9: on a run that reaches serialization the glyph map has an entry for
\* exactly the requested code points, and an entry's bitmap_source is absent
\* exactly when the rasterizer gave no bounding box.
C9_OneEntryPerCodePoint ==
    ReachedSerialization =>
        /\ DOMAIN glyphs = DOMAIN font
        /\ \A c \in DOMAIN glyphs : ~glyphs[c].bitmap_source.some <=> ~font[c].has_box

---------------------------------------------------------------------------
(* Properties of the generated pixels *)

\* the loop body of glyph c has run to its end
GlyphDone(c) ==
    /\ c \in generated
    /\ c \in Placed
    /\ pc # "panic"
    /\ ~(cur_glyph = c /\ pc \in { "outside_columns", "inside_seed", "inside_columns", "rows" })

Pixel(x, y) == outbuf[Idx(x, y)]

FullyInkedSquare(g) ==
    /\ g.has_box
    /\ g.width = g.height
    /\ \A s \in Sampled(g) : Coverage(g, s[1], s[2]) = CovDen

\* the middle index (both of them when n is even) of 0 .. n - 1
Mid(n) == { (n - 1) \div 2, n \div 2 }

\* centres of the four outer edges of the padded rectangle
EdgeCentres(r) ==
    { << r.x + m, r.y >> : m \in Mid(r.width) }
      \cup { << r.x + m, r.y + r.height - 1 >> : m \in Mid(r.width) }
      \cup { << r.x, r.y + m >> : m \in Mid(r.height) }
      \cup { << r.x + r.width - 1, r.y + m >> : m \in Mid(r.height) }

\* ink pixels next to the ink boundary
InkRing(g, r) ==
    { << r.x + P + s[1], r.y + P + s[2] >> :
        s \in { t \in Sampled(g) : \/ t[1] \in { 0, g.width - 1 }
                                   \/ t[2] \in { 0, g.height - 1 } } }

\* C7: in distance field mode, for a fully inked square glyph padded by
\* P >= 1, the centre pixels of the outer edges of the padding ring hold
\* byte 0, and when P > 1 the ink pixels next to the ink boundary hold a byte
\* of at least 128.
C7_SdfBoundary ==
    \A c \in Placed :
        (SdfMode /\ GlyphDone(c) /\ FullyInkedSquare(font[c]) /\ P >= 1) =>
            /\ \A e \in EdgeCentres(glyphs[c].bitmap_source) : Pixel(e[1], e[2]) = 0
            /\ P > 1 => \A e \in InkRing(font[c], glyphs[c].bitmap_source) :
                            Pixel(e[1], e[2]) >= 128

\* C7 witness: a fully inked square padded by more than 1 has been generated.
C7_SquareGenerated ==
    /\ SdfMode
    /\ P > 1
    /\ 1 \in Placed
    /\ GlyphDone(1)
    /\ FullyInkedSquare(font[1])

Abs(n) == IF n < 0 THEN -n ELSE n

\* the level k of 0 .. levels nearest to cov / CovDen * levels, the upper one on a tie
NearestLevel(cov, levels) ==
    CHOOSE k \in 0 .. levels :
        \A j \in 0 .. levels :
            \/ Abs(cov * levels - k * CovDen) < Abs(cov * levels - j * CovDen)
            \/ /\ Abs(cov * levels - k * CovDen) = Abs(cov * levels - j * CovDen)
               /\ k >= j

\* the integer nearest to 255 * k / levels, the upper one on a tie
NearestByte(k, levels) ==
    LET lo == (255 * k) \div levels
    IN  IF Abs((lo + 1) * levels - 255 * k) <= Abs(lo * levels - 255 * k)
        THEN lo + 1 ELSE lo

CoveragePixel(c, s) ==
    Pixel(glyphs[c].bitmap_source.x + P + s[1], glyphs[c].bitmap_source.y + P + s[2])

\* C8: in coverage mode with L >= 1 levels every byte written for a sampled
\* pixel of coverage c is the byte nearest to 255 * k / L for the level k
\* nearest to c * L, so at most L + 1 distinct bytes are written; with L = 4
\* the achievable bytes are exactly 0, 64, 128, 191, 255 and the coverages
\* 0.1, 0.3, 0.6, 0.9 are written as 0, 64, 128, 255.
C8_CoverageQuantization ==
    LET L == args.coverage_levels
    IN  (~SdfMode /\ L >= 1) =>
          /\ \A c \in Placed : GlyphDone(c) =>
               /\ \A s \in Sampled(font[c]) :
                    LET cov == Coverage(font[c], s[1], s[2])
                    IN  /\ CoveragePixel(c, s) = NearestByte(NearestLevel(cov, L), L)
                        /\ L = 4 => CoveragePixel(c, s) \in { 0, 64, 128, 191, 255 }
                        /\ (L = 4 /\ cov = 1) => CoveragePixel(c, s) = 0
                        /\ (L = 4 /\ cov = 3) => CoveragePixel(c, s) = 64
                        /\ (L = 4 /\ cov = 6) => CoveragePixel(c, s) = 128
                        /\ (L = 4 /\ cov = 9) => CoveragePixel(c, s) = 255
               /\ Cardinality({ CoveragePixel(c, s) : s \in Sampled(font[c]) }) <= L + 1
          /\ L = 4 => { QuantByte(cov, L) : cov \in 0 .. CovDen } = { 0, 64, 128, 191, 255 }

\* C8 witness: with 4 levels a glyph sampling the coverages 0.1, 0.3, 0.6
\* and 0.9 has been written.
C8_FourLevelsWritten ==
    /\ args.coverage_levels = 4
    /\ 1 \in Placed
    /\ GlyphDone(1)
    /\ { Coverage(font[1], s[1], s[2]) : s \in Sampled(font[1]) } = { 1, 3, 6, 9 }

\* buffer indices of the sampled pixels with coverage above 0.5 (main.rs 257)
InkIdx(g, padded_w) ==
    { (P + s[2]) * padded_w + P + s[1] :
        s \in { t \in Sampled(g) : ~IsBackground(Coverage(g, t[1], t[2])) } }

BackgroundIdx(g, padded_w) ==
    { (P + s[2]) * padded_w + P + s[1] :
        s \in { t \in Sampled(g) : IsBackground(Coverage(g, t[1], t[2])) } }

\* C10 as stated: the outside buffer is seeded with 0 at the sampled pixels
\* of coverage <= 0.5 and with max_dist everywhere else; the inside buffer
\* with 0 at the sampled pixels of coverage > 0.5 and max_dist at the
\* sampled background pixels.
C10_SeedsAsStated ==
    /\ pc = "outside_columns" =>
         \A i \in DOMAIN outside_buf :
             outside_buf[i] = IF i \in BackgroundIdx(font[cur_glyph], CurRect.width)
                              THEN 0 ELSE max_dist
    /\ pc = "inside_columns" =>
         /\ \A i \in InkIdx(font[cur_glyph], CurRect.width) : inside_buf[i] = 0
         /\ \A i \in BackgroundIdx(font[cur_glyph], CurRect.width) : inside_buf[i] = max_dist

\* C10 amended: the outside buffer is seeded with 0 at the sampled pixels of
\* coverage > 0.5 and with max_dist at every other cell; the inside buffer
\* with max_dist at the sampled pixels of coverage > 0.5 and with 0 at every
\* other cell.
C10_SeedsAsCoded ==
    /\ pc = "outside_columns" =>
         /\ DOMAIN outside_buf = 0 .. (CurRect.width * CurRect.height - 1)
         /\ \A i \in DOMAIN outside_buf :
                outside_buf[i] = IF i \in InkIdx(font[cur_glyph], CurRect.width)
                                 THEN 0 ELSE max_dist
    /\ pc = "inside_columns" =>
         /\ DOMAIN inside_buf = 0 .. (CurRect.width * CurRect.height - 1)
         /\ \A i \in DOMAIN inside_buf :
                inside_buf[i] = IF i \in InkIdx(font[cur_glyph], CurRect.width)
                                THEN max_dist ELSE 0

\* C10 witness: both buffers are seeded for a glyph with ink and background
\* samples and a padding ring.
C10_BothSeeded ==
    /\ pc = "inside_columns"
    /\ P >= 1
    /\ InkIdx(font[cur_glyph], CurRect.width) # {}
    /\ BackgroundIdx(font[cur_glyph], CurRect.width) # {}

---------------------------------------------------------------------------
(* Properties of the generation pass *)

GenPhase ==
    pc \in { "generate", "outside_columns", "inside_seed", "inside_columns", "rows" }

AfterGeneration == pc \in { "kerning", "save", "write_meta", "ok", "bad_format" }

\* the pixels glyph c gets when it is generated alone, from the font and its
\* rectangle only
OwnWrites(c) ==
    LET g == font[c]
        r == glyphs[c].bitmap_source
    IN  IF SdfMode
        THEN LET ob == ColumnPasses(SeedOutside(g, r.width, r.height), 0,
                                    r.width - P * 2, r.width, r.height)
                 ib == ColumnPasses(SeedInside(g, r.width, r.height), 0,
                                    r.width - P * 2, r.width, r.height)
             IN  { [x |-> r.x + q[1], y |-> r.y + q[2],
                    value |-> SdfByte(RowMin(ob, q[1], q[2], r.width),
                                      RowMin(ib, q[1], q[2], r.width))] :
                    q \in (0 .. (r.width - 1)) \X (0 .. (r.height - 1)) }
        ELSE CoverageWrites(g, r, args.coverage_levels)

InRect(r, x, y) ==
    /\ r.x <= x /\ x < r.x + r.width
    /\ r.y <= y /\ y < r.y + r.height

\* the canvas as a function of the set of finished glyphs alone: each
\* finished glyph's own pixels, inside its rectangle, and 0 everywhere else
CanvasOfDone ==
    LET done == { c \in Placed : GlyphDone(c) }
    IN  /\ \A c \in done :
               \A wr \in OwnWrites(c) :
                   /\ InRect(glyphs[c].bitmap_source, wr.x, wr.y)
                   /\ Pixel(wr.x, wr.y) = wr.value
        /\ \A i \in DOMAIN outbuf :
               outbuf[i] # 0 =>
                   \E c \in done : InRect(glyphs[c].bitmap_source, i % S, i \div S)

\* the glyph a generation step works on
StepGlyphs ==
    IF pc = "rows" THEN { cur_glyph } ELSE (generated' \ generated) \cap Placed

\* C11: generation starts with every rectangle assigned and the canvas
\* cleared; a generation step changes only pixels inside the rectangle of the
\* glyph it processes and no later step changes the canvas; so the canvas
\* depends only on which glyphs are finished, not on their order, and pixels
\* outside every assigned rectangle stay 0.
C11_GenerationFrame ==
    /\ []( (GenPhase \/ pc = "kerning") =>
             /\ bounding_boxes = << >>
             /\ CanvasOfDone
             /\ \A i \in DOMAIN outbuf :
                    (\A c \in Placed : ~InRect(glyphs[c].bitmap_source, i % S, i \div S))
                        => outbuf[i] = 0 )
    /\ [][ GenPhase =>
             \A i \in DOMAIN outbuf :
                 outbuf'[i] # outbuf[i] =>
                     \E c \in StepGlyphs :
                         InRect(glyphs[c].bitmap_source, i % S, i \div S) ]_vars
    /\ [][ AfterGeneration => outbuf' = outbuf ]_vars

\* C11 witness: two placed glyphs have both been generated and each left a
\* non-zero pixel in its rectangle.
C11_TwoGlyphsGenerated ==
    /\ pc = "kerning"
    /\ Cardinality(Placed) = 2
    /\ \A c \in Placed :
         \E q \in SourceCells(glyphs[c].bitmap_source) : Pixel(q[1], q[2]) # 0

---------------------------------------------------------------------------
(* Properties of the column passes *)

ColumnOf(buf, x, padded_w, padded_h) ==
    [y \in 0 .. (padded_h - 1) |-> buf[y * padded_w + x]]

\* min(max_dist, d * d), d the distance from row y to the nearest row of col
\* that holds 0; max_dist when no row holds 0
NearestZeroSq(col, y) ==
    LET zeros == { z \in DOMAIN col : col[z] = 0 }
        dists == { Abs(y - z) : z \in zeros }
    IN  IF zeros = {} THEN max_dist
        ELSE LET d == CHOOSE a \in dists : \A b \in dists : a <= b
             IN  IF d * d < max_dist THEN d * d ELSE max_dist

SeedColumns(padded_h) == [0 .. (padded_h - 1) -> { 0, max_dist }]

\* the ink columns of buf hold 0 or max_dist only
SeededColumns(buf) ==
    \A x \in P .. (CurRect.width - P - 1) : \A y \in 0 .. (CurRect.height - 1) :
        buf[y * CurRect.width + x] \in { 0, max_dist }

\* after the passes, every cell of every ink column of after holds the exact
\* value for the column of before it was seeded in
ColumnsExact(before, after) ==
    \A x \in P .. (CurRect.width - P - 1) :
        LET col == ColumnOf(before, x, CurRect.width, CurRect.height)
        IN  \A y \in 0 .. (CurRect.height - 1) :
                after[y * CurRect.width + x] = NearestZeroSq(col, y)

\* C12: with padding P >= 1, the downward then upward pass over a column
\* seeded with 0 or max_dist = P * P leaves in every cell exactly
\* min(P * P, d * d), d the vertical distance to the nearest cell seeded 0
\* (P * P when the column has none): for every seed column of the glyph's
\* padded height, and for the columns of both scratch buffers as the
\* program seeds and sweeps them
C12_ColumnPassExact ==
    /\ []( (pc \in { "outside_columns", "inside_columns" } /\ P >= 1) =>
             \A col \in SeedColumns(CurRect.height) :
                 ColumnPass(col, 0, 1, CurRect.height)
                     = [y \in 0 .. (CurRect.height - 1) |-> NearestZeroSq(col, y)] )
    /\ [][ (pc = "outside_columns" /\ P >= 1) =>
               /\ SeededColumns(outside_buf)
               /\ ColumnsExact(outside_buf, outside_buf') ]_vars
    /\ [][ (pc = "inside_columns" /\ P >= 1) =>
               /\ SeededColumns(inside_buf)
               /\ ColumnsExact(inside_buf, inside_buf') ]_vars

\* C12 witness: with padding 2 the outside columns have been swept and an ink
\* column holds a seed 0, a cell next to it at 1 and a cell capped at max_dist
C12_ColumnSwept ==
    /\ pc = "inside_seed"
    /\ P >= 2
    /\ \E x \in P .. (CurRect.width - P - 1) :
           { 0, 1, max_dist } \subseteq
               { outside_buf[y * CurRect.width + x] : y \in 0 .. (CurRect.height - 1) }

============================================================================
